---- MODULE Spec2Model ----
(***************************************************************************)
(* Tab / Shift+Tab handling of the shiki-editor text area (src/src/tab.ts). *)
(*                                                                         *)
(* The text area is modelled by its value (a sequence of one-character     *)
(* strings), its selection (two offsets, 0-based as in the DOM) and the    *)
(* log of what the last key press did to it.  Offsets are the source's:    *)
(* the JavaScript value[i] is At(value, i).                                *)
(***************************************************************************)
EXTENDS Integers, Sequences, FiniteSets

VARIABLES
    value,           \* input.value
    selectionStart,  \* input.selectionStart
    selectionEnd,    \* input.selectionEnd
    config,          \* the config argument the two listeners were hooked with
    key,             \* the last keydown event: [key, shiftKey], or NoKey
    ran,             \* the transforms the last key press invoked, in order
    events,          \* what they did to the input, in order
    prev,            \* the text area before the last key press, or None
    before           \* before a Shift+Tab that follows a Tab key press: the
                     \* text area before that earlier press and what it ran

vars == <<value, selectionStart, selectionEnd, config,
          key, ran, events, prev, before>>

----------------------------------------------------------------------------
(* Bounds and program constants *)

\* Longest buffer the user hands to a key press that can grow it.
MaxLen == 3

\* defaultOptions.tabSize; the model lets tabSize range over 1..DefaultTabSize.
DefaultTabSize == 4

SP  == " "
TAB == "\t"
LF  == "\n"
CR  == "\r"
\* U+2028 LINE SEPARATOR; it stands for U+2029 PARAGRAPH SEPARATOR too,
\* which the code treats alike in every place.
LS  == "LS"

\* What ^ of a regular expression with the m flag matches after
\* (ECMAScript's LineTerminator).
LineTerminators == {LF, CR, LS}

\* The characters of a text area's value: space, tab, the line terminators
\* other than \r (the value of a text area holds none: \r and \r\n are
\* normalised to \n), and one ("x") standing for every other character.
Alphabet == {SP, TAB, LF, LS, "x"}

TabSizes == 1..DefaultTabSize

\* A config as hookIndent and hookOutdent declare it (IndentConfig).
IndentConfigs ==
    {[tabSize |-> n, insertSpaces |-> b] : n \in TabSizes, b \in BOOLEAN}

\* The config as the host's create hands it over: hookIndent(input,
\* options?.tabSize ?? 4, options?.insertSpaces ?? true) makes the number
\* the config, and the third argument is dropped.  Every number behaves
\* like the default.
CreateConfigs == {[number |-> DefaultTabSize]}

None == [none |-> TRUE]
NoKey == [key |-> "", shiftKey |-> FALSE]

RECURSIVE SeqsOfLen(_)
SeqsOfLen(n) ==
    IF n = 0 THEN {<<>>}
    ELSE {Append(s, c) : s \in SeqsOfLen(n - 1), c \in Alphabet}

\* The buffer of the documented caret scenario, next to all short buffers.
ScenarioBuffers == {<<"a", "b", "c">>}

Buffers == UNION {SeqsOfLen(n) : n \in 0..MaxLen} \cup ScenarioBuffers

----------------------------------------------------------------------------
(* JavaScript values *)

\* const { tabSize, insertSpaces } = config: a property the config lacks
\* (every property, when the config is a number) is undefined.
Defined(cfg, name) == name \in DOMAIN cfg

\* if (insertSpaces): undefined is falsy.
Truthy(cfg, name) == Defined(cfg, name) /\ cfg[name]

\* value[i]: the character at 0-based offset i, undefined outside the string.
At(v, i) == IF i >= 0 /\ i < Len(v) THEN v[i + 1] ELSE "undefined"

\* value.slice(a, b) for 0 <= a, b <= value.length: empty when b <= a.
slice(v, a, b) == IF b <= a THEN <<>> ELSE SubSeq(v, a + 1, b)

\* c.repeat(n)
repeat(c, n) == [i \in 1..n |-> c]

\* ~~(a / b) for an integer a and b > 0: the quotient truncated towards zero.
TruncDiv(a, b) == IF a >= 0 THEN a \div b ELSE -((-a) \div b)

RECURSIVE Flatten(_)
Flatten(ss) == IF ss = <<>> THEN <<>> ELSE Head(ss) \o Flatten(Tail(ss))

----------------------------------------------------------------------------
(* Line utilities, tab.ts 99-139 *)

\* getLineStart without its backward scan: the offset itself.
getLineStart_NoScan(v, index) == index

RECURSIVE getLineStart(_, _)
getLineStart(v, index) ==
    IF index > 0 /\ At(v, index - 1) # LF
    THEN getLineStart(v, index - 1)
    ELSE index

RECURSIVE scanLineEnd(_, _)
scanLineEnd(v, index) ==
    IF index < Len(v) /\ At(v, index) # LF /\ At(v, index) # CR
    THEN scanLineEnd(v, index + 1)
    ELSE index

getLineEnd(v, index) ==
    IF index > 0 /\ At(v, index - 1) = LF
    THEN index - 1
    ELSE scanLineEnd(v, index)

isMultiLine(v, start, end) == \E i \in start..(end - 1) : At(v, i) = LF

RECURSIVE countLeadingSpaces(_, _, _)
countLeadingSpaces(v, start, ts) ==
    IF start < Len(v) /\ At(v, start) = SP
    THEN 1 + countLeadingSpaces(v, start + 1, ts)
    ELSE IF start < Len(v) /\ At(v, start) = TAB
    THEN ts + countLeadingSpaces(v, start + 1, ts)
    ELSE 0

----------------------------------------------------------------------------
(* str.replaceAll(/^[ \t]*/gm, callback) *)

\* With the m flag, ^ matches at offset 0 and after a line terminator.
IsLineStart(str, p) == p = 0 \/ At(str, p - 1) \in LineTerminators

\* The offsets the regular expression matches at, 0..str.length.
MatchOffsets(str) == {p \in 0..Len(str) : IsLineStart(str, p)}

\* The end of the greedy run of spaces and tabs that starts at p.
RECURSIVE runEnd(_, _)
runEnd(str, p) ==
    IF p < Len(str) /\ At(str, p) \in {SP, TAB} THEN runEnd(str, p + 1) ELSE p

\* The character at p belongs to a match: only spaces and tabs lie between
\* the start of its line and it.
InMatch(str, p) ==
    \E m \in MatchOffsets(str) : m <= p /\ p < runEnd(str, m)

\* The text the regular expression matches at offset p.
matchAt(str, p) == slice(str, p, runEnd(str, p))

\* The string with every match replaced; by[p] is what the callback
\* returned for the match at offset p.
replaceAll(str, by) ==
    Flatten([i \in 1..(Len(str) + 1) |->
        LET p == i - 1 IN
        (IF p \in MatchOffsets(str) THEN by[p] ELSE <<>>)
        \o (IF p < Len(str) /\ ~InMatch(str, p) THEN <<At(str, p)>> ELSE <<>>)])

----------------------------------------------------------------------------
(* The text area: [value, selectionStart, selectionEnd, events, threw] *)

\* setRangeText that replaces the text and leaves the selection offsets
\* as they were.
setRangeText_KeepSelection(t, replacement, start, end, selectMode) ==
    [t EXCEPT !.value = slice(t.value, 0, start) \o replacement
                        \o slice(t.value, end, Len(t.value)),
              !.events = Append(@, "setRangeText")]

\* input.setRangeText(replacement, start, end, selectMode), as the HTML
\* Standard defines it; selectMode is "preserve" when the call gives none.
setRangeText(t, replacement, start, end, selectMode) ==
    IF start > end
    THEN [t EXCEPT !.events = Append(@, "IndexSizeError"), !.threw = TRUE]
    ELSE
    LET len    == Len(t.value)
        s      == IF start > len THEN len ELSE start
        e      == IF end > len THEN len ELSE end
        newLen == Len(replacement)
        newEnd == s + newLen
        delta  == newLen - (e - s)
        ss     == t.selectionStart
        se     == t.selectionEnd
        newSS  == CASE selectMode = "end" -> newEnd
                    [] selectMode = "preserve" ->
                         IF ss > e THEN ss + delta
                         ELSE IF ss > s THEN s ELSE ss
        newSE  == CASE selectMode = "end" -> newEnd
                    [] selectMode = "preserve" ->
                         IF se > e THEN se + delta
                         ELSE IF se > s THEN newEnd ELSE se
    IN  [t EXCEPT !.value = slice(t.value, 0, s) \o replacement
                            \o slice(t.value, e, len),
                  !.selectionStart = newSS,
                  !.selectionEnd = newSE,
                  !.events = Append(@, "setRangeText")]

\* input.dispatchEvent(new Event("input")): the host's render listener runs.
\* A call that follows a throwing statement is never reached.
dispatchInput(t) ==
    IF t.threw THEN t ELSE [t EXCEPT !.events = Append(@, "input")]

----------------------------------------------------------------------------
(* indent, tab.ts 6-45 *)

\* select_both_ends || isMultiLine(value, start, end), tab.ts 17-21
IsBlockMode(v, start, end) ==
    LET start_at_line_start == start = 0 \/ At(v, start - 1) = LF
        end_at_line_end == end = Len(v) \/ At(v, end) = LF \/ At(v, end) = CR
        select_both_ends ==
            start # end /\ start_at_line_start /\ end_at_line_end
    IN  select_both_ends \/ isMultiLine(v, start, end)

\* The callback with tab_count spaces in place of tab_count * tabSize.
indentLeading_Unscaled(leading, offset, str, line_end, cfg) ==
    IF At(str, offset) = LF \/ At(str, offset) = CR \/ offset = line_end
    THEN leading
    ELSE LET tab_count ==
                 IF Defined(cfg, "tabSize")
                 THEN 1 + TruncDiv(countLeadingSpaces(leading, 0, cfg.tabSize),
                                   cfg.tabSize)
                 ELSE 1
         IN  IF Truthy(cfg, "insertSpaces") THEN repeat(SP, tab_count)
             ELSE repeat(TAB, tab_count)

\* The replaceAll callback of indent, tab.ts 22-31; line_end is the
\* enclosing function's, an offset into the whole value.  With tabSize
\* undefined the quotient is NaN and ~~NaN is 0.
indentLeading(leading, offset, str, line_end, cfg) ==
    IF At(str, offset) = LF \/ At(str, offset) = CR \/ offset = line_end
    THEN leading
    ELSE LET tab_count ==
                 IF Defined(cfg, "tabSize")
                 THEN 1 + TruncDiv(countLeadingSpaces(leading, 0, cfg.tabSize),
                                   cfg.tabSize)
                 ELSE 1
         IN  IF Truthy(cfg, "insertSpaces")
             THEN repeat(SP, tab_count * cfg.tabSize)
             ELSE repeat(TAB, tab_count)

\* The padding without the distance to the next tab stop: a full tab.
caretReplacement_FullTab(start, line_start, cfg) ==
    IF Truthy(cfg, "insertSpaces") THEN repeat(SP, cfg.tabSize) ELSE <<TAB>>

\* The padding as the column's remainder, not what is left to the stop.
caretReplacement_Remainder(start, line_start, cfg) ==
    IF Truthy(cfg, "insertSpaces")
    THEN repeat(SP, (start - line_start) % cfg.tabSize)
    ELSE <<TAB>>

\* The replacement of caret mode, tab.ts 37-41
caretReplacement(start, line_start, cfg) ==
    IF Truthy(cfg, "insertSpaces")
    THEN repeat(SP, cfg.tabSize - ((start - line_start) % cfg.tabSize))
    ELSE <<TAB>>

indent(t, cfg) ==
    LET start      == t.selectionStart
        end        == t.selectionEnd
        v          == t.value
        line_start == getLineStart(v, start)
        line_end   == getLineEnd(v, end)
    IN  IF IsBlockMode(v, start, end)
        THEN LET str == slice(v, line_start, line_end)
                 replacement ==
                   replaceAll(str,
                       [offset \in MatchOffsets(str) |->
                           indentLeading(matchAt(str, offset), offset, str,
                                         line_end, cfg)])
             IN  dispatchInput(
                     setRangeText(t, replacement, line_start, line_end,
                                  "preserve"))
        ELSE dispatchInput(
                 setRangeText(t, caretReplacement(start, line_start, cfg),
                              start, end, "end"))

----------------------------------------------------------------------------
(* outdent, tab.ts 60-84 *)

\* The callback with the tab count of indent: one stop more, not one less.
outdentLeading_AsIndent(leading, cfg) ==
    LET tab_count ==
            IF Defined(cfg, "tabSize")
            THEN 1 + TruncDiv(countLeadingSpaces(leading, 0, cfg.tabSize),
                              cfg.tabSize)
            ELSE 1
    IN  IF tab_count <= 0 THEN <<>>
        ELSE IF Truthy(cfg, "insertSpaces")
        THEN repeat(SP, tab_count * cfg.tabSize)
        ELSE repeat(TAB, tab_count)

\* The replaceAll callback of outdent, tab.ts 72-80.  With tabSize
\* undefined the quotient is NaN and ~~NaN is 0.
outdentLeading(leading, cfg) ==
    LET tab_count ==
            IF Defined(cfg, "tabSize")
            THEN TruncDiv(countLeadingSpaces(leading, 0, cfg.tabSize)
                              - cfg.tabSize,
                          cfg.tabSize)
            ELSE 0
    IN  IF tab_count <= 0 THEN <<>>
        ELSE IF Truthy(cfg, "insertSpaces")
        THEN repeat(SP, tab_count * cfg.tabSize)
        ELSE repeat(TAB, tab_count)

outdent(t, cfg) ==
    LET start       == t.selectionStart
        end         == t.selectionEnd
        v           == t.value
        line_start  == getLineStart(v, start)
        line_end    == getLineEnd(v, end)
        value_slice == slice(v, line_start, line_end)
        replacement ==
            replaceAll(value_slice,
                [offset \in MatchOffsets(value_slice) |->
                    outdentLeading(matchAt(value_slice, offset), cfg)])
    IN  IF replacement = value_slice THEN t
        ELSE dispatchInput(
                 setRangeText(t, replacement, line_start, line_end,
                              "preserve"))

----------------------------------------------------------------------------
(* The keydown listeners, tab.ts 47-58 and 86-97 *)

\* A listener's state: the text area and the transforms invoked so far.
\* An exception ends the listener that raised it, not the dispatch.
onKeydownIndent(st, e, cfg) ==
    IF e.key # "Tab" \/ e.shiftKey THEN st
    ELSE [input |-> [indent(st.input, cfg) EXCEPT !.threw = FALSE],
          ran   |-> Append(st.ran, "indent")]

\* The outdent listener without its test of the Shift key.
onKeydownOutdent_AnyTab(st, e, cfg) ==
    IF e.key # "Tab" THEN st
    ELSE [input |-> [outdent(st.input, cfg) EXCEPT !.threw = FALSE],
          ran   |-> Append(st.ran, "outdent")]

onKeydownOutdent(st, e, cfg) ==
    IF e.key # "Tab" \/ ~e.shiftKey THEN st
    ELSE [input |-> [outdent(st.input, cfg) EXCEPT !.threw = FALSE],
          ran   |-> Append(st.ran, "outdent")]

\* The text area as the listeners of one key press find it.
Input == [value |-> value, selectionStart |-> selectionStart,
          selectionEnd |-> selectionEnd, events |-> <<>>, threw |-> FALSE]

Snapshot == [value |-> value, selectionStart |-> selectionStart,
             selectionEnd |-> selectionEnd]

\* Both listeners are registered on the input, hookIndent first
\* (the host's create), each closing over the config it was hooked with;
\* a keydown event reaches them in that order.
dispatchKeydown(e, cfg) ==
    onKeydownOutdent(
        onKeydownIndent([input |-> Input, ran |-> <<>>], e, cfg), e, cfg)

----------------------------------------------------------------------------
(* The state machine *)

\* The text area once the listeners are hooked: by a caller that follows
\* their signature, or by the host's create.
Init ==
    /\ value \in Buffers
    /\ selectionStart = Len(value)
    /\ selectionEnd = Len(value)
    /\ config \in IndentConfigs \cup CreateConfigs
    /\ key = NoKey
    /\ ran = <<>>
    /\ events = <<>>
    /\ prev = None
    /\ before = None

\* The user moves the caret or selects a range; what the last key press
\* did is forgotten.
Select ==
    /\ Len(value) <= MaxLen
    /\ \E s \in 0..Len(value) : \E e \in s..Len(value) :
         /\ selectionStart' = s
         /\ selectionEnd' = e
    /\ key' = NoKey
    /\ ran' = <<>>
    /\ events' = <<>>
    /\ prev' = None
    /\ before' = None
    /\ UNCHANGED <<value, config>>

\* One keydown event with its listeners run to completion.
Press(e) ==
    LET st == dispatchKeydown(e, config) IN
    /\ value' = st.input.value
    /\ selectionStart' = st.input.selectionStart
    /\ selectionEnd' = st.input.selectionEnd
    /\ key' = e
    /\ ran' = st.ran
    /\ events' = st.input.events
    /\ prev' = Snapshot
    /\ before' = IF e.shiftKey /\ prev # None
                  THEN [value |-> prev.value,
                        selectionStart |-> prev.selectionStart,
                        selectionEnd |-> prev.selectionEnd,
                        ran |-> ran]
                  ELSE None
    /\ UNCHANGED config

\* Tab: guarded so that buffers stay bounded.
KeydownTab ==
    /\ Len(value) <= MaxLen
    /\ Press([key |-> "Tab", shiftKey |-> FALSE])

\* Shift+Tab
KeydownShiftTab == Press([key |-> "Tab", shiftKey |-> TRUE])

\* Any other key, with or without Shift: neither listener acts, and the
\* press leaves no trace.
KeydownOther ==
    /\ \E sh \in BOOLEAN :
         LET st == dispatchKeydown([key |-> "a", shiftKey |-> sh], config) IN
         /\ value' = st.input.value
         /\ selectionStart' = st.input.selectionStart
         /\ selectionEnd' = st.input.selectionEnd
         /\ ran' = st.ran
         /\ events' = st.input.events
    /\ key' = NoKey
    /\ prev' = None
    /\ before' = None
    /\ UNCHANGED config

Next == Select \/ KeydownTab \/ KeydownShiftTab \/ KeydownOther

Spec == Init /\ [][Next]_vars

----------------------------------------------------------------------------
(* Lines and widths, as the properties below speak of them *)

\* The listeners hold a tab configuration: tabSize >= 1 and insertSpaces.
WellFormed == Defined(config, "tabSize") /\ Defined(config, "insertSpaces")

tabSize == config.tabSize
insertSpaces == config.insertSpaces

\* The number of the line that holds offset p: the line terminators before it.
LineNo(v, p) ==
    Cardinality({q \in 0..(p - 1) : At(v, q) \in LineTerminators})

NumLines(v) == Cardinality(MatchOffsets(v))

LineNos(v) == 0..(NumLines(v) - 1)

\* The offset at which line k of v starts.
LineStartOf(v, k) == CHOOSE p \in MatchOffsets(v) : LineNo(v, p) = k

\* The leading-whitespace width of line k: 1 per space, tabSize per tab.
Width(v, k) == countLeadingSpaces(v, LineStartOf(v, k), tabSize)

TotalWidth(v) == LET sum[k \in 0..NumLines(v)] ==
                         IF k = 0 THEN 0 ELSE sum[k - 1] + Width(v, k - 1)
                 IN  sum[NumLines(v)]

\* v without the runs of spaces and tabs that start its lines.
StripLeading(v) ==
    Flatten([i \in 1..Len(v) |->
                IF InMatch(v, i - 1) THEN <<>> ELSE <<v[i]>>])

\* The number of spaces and tabs that start the lines of v.
TotalLeading(v) == Len(v) - Len(StripLeading(v))

Max(a, b) == IF a >= b THEN a ELSE b

Rewrite == <<"setRangeText", "input">>

Indented == prev # None /\ ran = <<"indent">>
Outdented == prev # None /\ ran = <<"outdent">>

\* The range of the last key press: [lineStart(start), lineEnd(end)] of the
\* text area it found.
PrevLineStart == getLineStart(prev.value, prev.selectionStart)
PrevLineEnd == getLineEnd(prev.value, prev.selectionEnd)
PrevBlockMode ==
    IsBlockMode(prev.value, prev.selectionStart, prev.selectionEnd)

\* The lines of the rewritten range.
RangeLines ==
    {k \in LineNos(prev.value) :
        /\ PrevLineStart <= LineStartOf(prev.value, k)
        /\ LineStartOf(prev.value, k) <= PrevLineEnd}

\* Line k was empty: its start was followed by a line terminator, or was
\* the end of the rewritten range.
PrevEmptyLine(k) ==
    LET p == LineStartOf(prev.value, k) IN
    At(prev.value, p) \in LineTerminators \/ p = PrevLineEnd

----------------------------------------------------------------------------
(* C1 *)

\* C1: outdent lowers the leading-whitespace width of each line of the
\* rewritten range by at most tabSize, and never below zero.
C1_OutdentAtMostOneStop ==
    (WellFormed /\ Outdented) =>
        /\ NumLines(value) = NumLines(prev.value)
        /\ \A k \in RangeLines :
             /\ Width(value, k) >= 0
             /\ Width(value, k) <= Width(prev.value, k)
             /\ Width(prev.value, k) - Width(value, k) <= tabSize

----------------------------------------------------------------------------
(* C2 *)

\* The end of the line that holds the selection end: for a caret, the end
\* of the line the caret is on; for a selection, lineEnd(end).
HeldLineEnd(v, start, end) ==
    IF start = end THEN scanLineEnd(v, end) ELSE getLineEnd(v, end)

HeldLines ==
    {k \in LineNos(prev.value) :
        /\ PrevLineStart <= LineStartOf(prev.value, k)
        /\ LineStartOf(prev.value, k) <=
               HeldLineEnd(prev.value, prev.selectionStart, prev.selectionEnd)}

\* C2: outdent works on every line from the start of the line holding the
\* selection start to the end of the line holding the selection end, for a
\* caret in any column as for a selection, and is a no-op (no rewrite, no
\* notification) only when none of these lines has leading whitespace.
C2_OutdentWholeLineRange ==
    (WellFormed /\ Outdented) =>
        /\ (events = <<>>) <=> (\A k \in HeldLines : Width(prev.value, k) = 0)
        /\ \A k \in HeldLines :
             Width(prev.value, k) > 0 => Width(value, k) < Width(prev.value, k)

----------------------------------------------------------------------------
(* C3 *)

\* C3: block-mode indent leaves every empty line of the rewritten range as
\* it was, wherever the range begins.
C3_EmptyLinesUntouched ==
    (WellFormed /\ Indented /\ PrevBlockMode) =>
        \A k \in RangeLines :
            PrevEmptyLine(k) => Width(value, k) = Width(prev.value, k)

----------------------------------------------------------------------------
(* C4 *)

\* An outdent that follows a caret-mode indent at the caret it left.
RoundTrip ==
    /\ WellFormed
    /\ before # None
    /\ before.ran = <<"indent">>
    /\ Outdented
    /\ before.selectionStart = before.selectionEnd

CaretLineStart == getLineStart(before.value, before.selectionStart)
CaretLineWidth == countLeadingSpaces(before.value, CaretLineStart, tabSize)
CaretColumn == before.selectionStart - CaretLineStart
CaretInLeading == before.selectionStart <= runEnd(before.value, CaretLineStart)

\* C4 as stated: on a line whose width is a multiple of tabSize, indent at
\* a caret and then outdent restores the line's leading-whitespace width.
C4_RoundTripAnyCaret ==
    (RoundTrip /\ CaretLineWidth % tabSize = 0) =>
        countLeadingSpaces(value, CaretLineStart, tabSize) = CaretLineWidth

\* C4, amended: the round trip restores the width when the width is zero,
\* or when the caret lies inside the line's leading whitespace, at a column
\* that is a multiple of tabSize if spaces are inserted.
C4_RoundTripAlignedCaret ==
    (/\ RoundTrip
     /\ CaretLineWidth % tabSize = 0
     /\ \/ CaretLineWidth = 0
        \/ /\ CaretInLeading
           /\ (~insertSpaces \/ CaretColumn % tabSize = 0)) =>
        countLeadingSpaces(value, CaretLineStart, tabSize) = CaretLineWidth

\* Both presses rewrote an indented, aligned line from a caret in its
\* leading whitespace.
C4_Witness ==
    /\ RoundTrip
    /\ CaretLineWidth % tabSize = 0
    /\ CaretLineWidth > 0
    /\ CaretInLeading
    /\ CaretColumn > 0
    /\ (~insertSpaces \/ CaretColumn % tabSize = 0)
    /\ prev.value # before.value
    /\ events = Rewrite

----------------------------------------------------------------------------
(* C5 *)

\* Tab pressed in "abc" with the caret at offset 3, tabSize 4, spaces.
AbcScenario ==
    /\ WellFormed
    /\ Indented
    /\ prev = [value |-> <<"a", "b", "c">>,
               selectionStart |-> 3, selectionEnd |-> 3]
    /\ tabSize = 4
    /\ insertSpaces

\* C5 as stated: the buffer becomes "abc" and four spaces, the caret 7.
C5_AbcFourSpaces ==
    AbcScenario =>
        /\ value = <<"a", "b", "c", SP, SP, SP, SP>>
        /\ selectionStart = 7
        /\ selectionEnd = 7

\* C5, amended: the buffer becomes "abc" and one space (the padding to the
\* next tab stop, 4 - 3 % 4), the caret 4.
C5_AbcNextTabStop ==
    AbcScenario =>
        /\ value = <<"a", "b", "c", SP>>
        /\ selectionStart = 4
        /\ selectionEnd = 4

C5_Witness == AbcScenario /\ events = Rewrite

----------------------------------------------------------------------------
(* C6 *)

\* C6: block-mode indent takes every non-empty line of the rewritten range
\* to the next multiple of tabSize strictly above its width: the width
\* grows by at least 1 and at most tabSize.
C6_BlockIndentNextStop ==
    (WellFormed /\ Indented /\ PrevBlockMode) =>
        \A k \in RangeLines :
            ~PrevEmptyLine(k) =>
                LET w == Width(prev.value, k) IN
                /\ Width(value, k) = tabSize * ((w \div tabSize) + 1)
                /\ Width(value, k) - w >= 1
                /\ Width(value, k) - w <= tabSize

\* A block-mode indent of two lines, one of them of unaligned width.
C6_Witness ==
    /\ WellFormed
    /\ Indented
    /\ PrevBlockMode
    /\ \E k \in RangeLines : \E j \in RangeLines :
         /\ k # j
         /\ ~PrevEmptyLine(k)
         /\ ~PrevEmptyLine(j)
         /\ Width(prev.value, k) % tabSize # 0
         /\ Width(value, k) - Width(prev.value, k) < tabSize

----------------------------------------------------------------------------
(* C7 *)

\* C7: the selection stays within the buffer:
\* 0 <= selectionStart <= selectionEnd <= value.length.
C7_SelectionValid ==
    /\ 0 <= selectionStart
    /\ selectionStart <= selectionEnd
    /\ selectionEnd <= Len(value)

\* An outdent shortened the buffer below the old selection end.
C7_Witness ==
    /\ Outdented
    /\ events = Rewrite
    /\ prev.selectionStart < prev.selectionEnd
    /\ prev.selectionEnd > Len(value)

----------------------------------------------------------------------------
(* C8 *)

\* C8: a Tab press runs indent alone and makes one rewrite followed by one
\* notification; a Shift+Tab press runs outdent alone and makes one rewrite
\* followed by one notification, or neither.
C8_OneRewritePerPress ==
    key.key = "Tab" =>
        /\ ~key.shiftKey => (ran = <<"indent">> /\ events = Rewrite)
        /\ key.shiftKey =>
               (ran = <<"outdent">> /\ events \in {<<>>, Rewrite})

\* A Tab press that changed several lines in its one rewrite.
C8_Witness ==
    /\ WellFormed
    /\ key.key = "Tab"
    /\ ~key.shiftKey
    /\ Indented
    /\ PrevBlockMode
    /\ events = Rewrite
    /\ Cardinality({k \in RangeLines :
                      Width(value, k) # Width(prev.value, k)}) >= 2

----------------------------------------------------------------------------
(* C9 *)

\* C9: every outdent that rewrites strictly lowers the total
\* leading-whitespace width of the buffer (a natural number, so only
\* finitely many outdents in a row rewrite), and an outdent that follows a
\* no-op outdent is a no-op again and leaves the text area as it is.
\* Where the listeners hold no tabSize to measure a tab with, it is the
\* number of leading spaces and tabs that the rewrite strictly lowers.
C9_OutdentTerminates ==
    [][/\ (key'.key = "Tab" /\ key'.shiftKey /\ events' # <<>>) =>
            IF WellFormed
            THEN /\ TotalWidth(value)' < TotalWidth(value)
                 /\ TotalWidth(value)' >= 0
            ELSE /\ TotalLeading(value)' < TotalLeading(value)
                 /\ TotalLeading(value)' >= 0
       /\ (Outdented /\ events = <<>> /\ key'.key = "Tab" /\ key'.shiftKey) =>
            /\ events' = <<>>
            /\ value' = value
            /\ selectionStart' = selectionStart
            /\ selectionEnd' = selectionEnd]_vars

\* A no-op outdent that follows an outdent that rewrote several lines.
C9_Witness ==
    /\ WellFormed
    /\ Outdented
    /\ events = <<>>
    /\ before # None
    /\ before.ran = <<"outdent">>
    /\ TotalWidth(before.value) > TotalWidth(prev.value) + tabSize
    /\ value = prev.value
    /\ NumLines(value) >= 2

----------------------------------------------------------------------------
(* C10 *)

\* C10: block-mode indent and outdent leave the buffer before lineStart and
\* after lineEnd as it was, keep the number of lines, and keep on every
\* line the text that follows its leading whitespace.
C10_OnlyLeadingWhitespace ==
    ((Indented /\ PrevBlockMode) \/ Outdented) =>
        LET tail == Len(prev.value) - Max(PrevLineEnd, PrevLineStart) IN
        /\ slice(value, 0, PrevLineStart)
             = slice(prev.value, 0, PrevLineStart)
        /\ slice(value, Len(value) - tail, Len(value))
             = slice(prev.value, Len(prev.value) - tail, Len(prev.value))
        /\ NumLines(value) = NumLines(prev.value)
        /\ StripLeading(value) = StripLeading(prev.value)

\* A block-mode indent inside the buffer: text before and after the range.
C10_Witness ==
    /\ Indented
    /\ PrevBlockMode
    /\ PrevLineStart > 0
    /\ PrevLineEnd < Len(prev.value)
    /\ value # prev.value

====
